---- MODULE Spec2Model ----
(***************************************************************************)
(* Model of the fuzzy file-matching engine of src/matcher.py               *)
(* (AdvancedMovieMatcher): normalize_filename, calculate_similarity,       *)
(* find_best_matches and extract_keywords.                                 *)
(*                                                                         *)
(* Strings are sequences of one-character strings.  Python floats are      *)
(* modelled as exact rationals <<numerator, denominator>> in lowest terms. *)
(***************************************************************************)
EXTENDS Integers, Sequences, FiniteSets, TLC

VARIABLES pc, op, filename, tmdb_title, tmdb_year, file_names, limit,
          norm_result, sim_result, matches_result, keywords_result, raised,
          matcher, calls

vars == <<pc, op, filename, tmdb_title, tmdb_year, file_names, limit,
          norm_result, sim_result, matches_result, keywords_result, raised,
          matcher, calls>>

\* Python's None: a value that is no string of characters
None == <<"None">>

-----------------------------------------------------------------------------
(* Strings and characters                                                  *)

\* a string literal as a sequence of characters
Str(s) == [i \in 1..Len(s) |-> SubSeq(s, i, i)]

Max(S) == CHOOSE x \in S : \A y \in S : y <= x
Min(S) == CHOOSE x \in S : \A y \in S : x <= y

\* the characters of the model's alphabet, in code-point order
CodePoints == Str(" ()-.0123456789@ABCDEFGHIJKLMNOPQRSTUVWXYZ[]_abcdefghijklmnopqrstuvwxyz{|}")

Ord(c) == CHOOSE i \in 1..Len(CodePoints) : CodePoints[i] = c

Digits == {"0", "1", "2", "3", "4", "5", "6", "7", "8", "9"}
UpperCase == Str("ABCDEFGHIJKLMNOPQRSTUVWXYZ")
LowerCase == Str("abcdefghijklmnopqrstuvwxyz")
Letters == {UpperCase[i] : i \in 1..26} \cup {LowerCase[i] : i \in 1..26}

\* regex classes \d, \w, \s and [A-Z0-9] under re.IGNORECASE
WordChars == Letters \cup Digits \cup {"_"}
Spaces == {" "}
Alnums == Letters \cup Digits
IsDigit(c) == c \in Digits
IsWordChar(c) == c \in WordChars
IsSpace(c) == c \in Spaces
IsAlnum(c) == c \in Alnums

\* str.lower() on one character
LowerChar(c) ==
  IF \E i \in 1..26 : UpperCase[i] = c
  THEN LowerCase[CHOOSE i \in 1..26 : UpperCase[i] = c]
  ELSE c

\* str.lower()
lower(s) == [i \in 1..Len(s) |-> LowerChar(s[i])]

\* str.strip()
strip(s) ==
  LET idx == {i \in 1..Len(s) : ~IsSpace(s[i])}
  IN IF idx = {} THEN <<>> ELSE SubSeq(s, Min(idx), Max(idx))

\* str.endswith(suffix) / str.startswith(prefix)
endswith(s, suffix) ==
  /\ Len(s) >= Len(suffix)
  /\ SubSeq(s, Len(s) - Len(suffix) + 1, Len(s)) = suffix

startswith(s, prefix) ==
  /\ Len(s) >= Len(prefix)
  /\ SubSeq(s, 1, Len(prefix)) = prefix

\* str.isdigit() (False on the empty string)
isdigit(s) == Len(s) > 0 /\ \A i \in 1..Len(s) : IsDigit(s[i])

\* the text from position i on (Python text[i-1:])
From(s, i) == SubSeq(s, i, Len(s))

\* ' '.join(seq) with an arbitrary separator string
RECURSIVE join(_, _)
join(sep, seq) ==
  IF Len(seq) = 0 THEN <<>>
  ELSE IF Len(seq) = 1 THEN seq[1]
  ELSE seq[1] \o sep \o join(sep, Tail(seq))

\* str.split(): the maximal runs of non-whitespace characters, in order
RECURSIVE split(_)
split(s) ==
  LET t == strip(s)
  IN IF Len(t) = 0 THEN <<>>
     ELSE LET sp == {i \in 1..Len(t) : IsSpace(t[i])}
              e  == IF sp = {} THEN Len(t) + 1 ELSE Min(sp)
          IN <<SubSeq(t, 1, e - 1)>> \o split(From(t, e))

\* lexicographic order of strings by code point (Python's str <)
RECURSIVE StrLess(_, _)
StrLess(a, b) ==
  IF Len(b) = 0 THEN FALSE
  ELSE IF Len(a) = 0 THEN TRUE
  ELSE IF a[1] = b[1] THEN StrLess(Tail(a), Tail(b))
  ELSE Ord(a[1]) < Ord(b[1])

\* sorted(list of distinct strings)
RECURSIVE sorted(_)
sorted(S) ==
  IF S = {} THEN <<>>
  ELSE LET m == CHOOSE x \in S : \A y \in S \ {x} : StrLess(x, y)
       IN <<m>> \o sorted(S \ {m})

\* the set of elements of a list
Range(seq) == {seq[i] : i \in 1..Len(seq)}

\* the element of a one-element set. A statement "x = e" followed by a use
\* of x is written Only({use(x) : x \in {e}}): the value of e is computed
\* first, and the use works on that value
Only(S) == CHOOSE x \in S : TRUE

-----------------------------------------------------------------------------
(* Lookup tables of AdvancedMovieMatcher                                   *)

JUNK_WORDS == {Str(w) : w \in {
  "480p", "720p", "1080p", "2160p", "4k", "8k", "hdr", "sdr", "uhd", "fhd", "hd", "sd",
  "10bit", "8bit", "hdr10", "hdr10plus", "dv", "dolbyvision", "bluray", "webrip", "webdl",
  "brrip", "dvdrip", "hdtv", "pdtv", "camrip", "ts", "telesync", "tc", "telecine", "scr",
  "screener", "dvdscr", "r5", "remux", "bdrip", "microhd", "complete", "full",
  "x264", "x265", "h264", "h265", "hevc", "av1", "avc", "divx", "xvid",
  "aac", "ac3", "dd", "ddp", "dts", "eac3", "atmos", "truehd", "mp3", "flac", "ogg",
  "sinhala", "sinhalese", "tamil", "telugu", "hindi", "malayalam", "kannada", "english",
  "dubbed", "dubbing", "dual", "multi", "sub", "subs", "subtitle", "subtitles",
  "embedded", "softsubs", "hardsub", "subtitled", "eng", "tam", "hin", "mal",
  "cinesubz", "royalmovies", "royalseries", "mlwbd", "mkvcinemas", "moviezworld",
  "desiscandal", "khatrimaza", "worldfree4u", "bollyshare", "pagalmovies",
  "tamilrockers", "isaimini", "madrasrockers", "todaypk", "moviesda",
  "tamilyogi", "movieverse", "moviezindagi", "hdmovieshub", "skymovieshd",
  "yts", "rarbg", "ettv", "etrg", "ctrlhd", "framestor", "tigole",
  "team", "upload", "uploaded", "by", "from", "with", "latest", "new",
  "channel", "episode", "episodes", "season", "seasons", "series", "part", "volume",
  "collection", "edition", "version", "uncut", "uncensored", "directors", "extended",
  "unrated", "final", "movie", "film", "theatrical", "cut", "limited",
  "special", "anniversary", "proper", "repack", "rerip", "nf", "amzn", "dsnp", "hulu", "atvp",
  "www", "com", "net", "org", "lk", "in", "to", "me", "co", "uk", "us", "tv", "website"}}

KEEP_WORDS == {Str(w) : w \in {
  "ii", "iii", "iv", "v", "vi", "vii", "viii", "ix", "x", "xi", "xii",
  "tv", "us", "uk", "eu", "in", "at", "on", "of", "the", "and", "a", "an",
  "3d", "2d", "4d",
  "dc", "uc"}}

\* abbreviation -> expansion
ABBREVIATIONS == {
  <<"av", "avengers">>, <<"hp", "harry potter">>, <<"lotr", "lord of the rings">>,
  <<"sw", "star wars">>, <<"st", "star trek">>, <<"jw", "jurassic world">>,
  <<"jp", "jurassic park">>, <<"mi", "mission impossible">>, <<"ind", "indiana">>,
  <<"indy", "indiana">>, <<"ff", "fast furious">>, <<"tf", "transformers">>,
  <<"xmen", "x men">>, <<"got", "game of thrones">>, <<"tbbt", "big bang theory">>,
  <<"twd", "walking dead">>, <<"gotg", "guardians of the galaxy">>,
  <<"aou", "age of ultron">>, <<"cw", "civil war">>, <<"iw", "infinity war">>,
  <<"eg", "endgame">>}

AbbreviationKeys == {Str(p[1]) : p \in ABBREVIATIONS}

\* ABBREVIATIONS[token]
Expansion(token) == Str((CHOOSE p \in ABBREVIATIONS : Str(p[1]) = token)[2])

\* quality marker -> score, in hundredths
QUALITY_PATTERNS == {
  <<"2160p", 100>>, <<"4k", 100>>, <<"uhd", 100>>,
  <<"1080p", 90>>, <<"fhd", 90>>,
  <<"720p", 80>>, <<"hd", 80>>,
  <<"480p", 60>>, <<"sd", 60>>,
  <<"bluray", 95>>, <<"remux", 97>>,
  <<"webdl", 85>>, <<"webrip", 80>>,
  <<"hdtv", 75>>, <<"dvdrip", 70>>,
  <<"cam", 30>>, <<"ts", 20>>, <<"telesync", 25>>}

QualityKeys == {Str(p[1]) : p \in QUALITY_PATTERNS}

LANGUAGE_PATTERNS == {
  <<"sinhala", "si">>, <<"sinhalese", "si">>,
  <<"tamil", "ta">>, <<"telugu", "te">>,
  <<"hindi", "hi">>, <<"malayalam", "ml">>, <<"kannada", "kn">>,
  <<"english", "en">>, <<"dubbed", "dub">>, <<"dual", "dual">>}

LanguageKeys == {Str(p[1]) : p \in LANGUAGE_PATTERNS}

extensions == {Str(e) : e \in
  {".mkv", ".mp4", ".avi", ".mov", ".wmv", ".flv", ".webm", ".m4v", ".ts"}}

-----------------------------------------------------------------------------
(* Regular expressions of AdvancedMovieMatcher.__init__                    *)

\* number of consecutive characters from position i on that are in class
RunLen(text, i, class) ==
  LET stop == {k \in i..Len(text) : text[k] \notin class}
  IN IF stop = {} THEN Len(text) + 1 - i ELSE Min(stop) - i

\* the maximal runs of \w characters, as spans <<first, last>>: a pattern
\* \b(w1|w2|...)\b whose alternatives are made of \w characters matches
\* exactly the runs that spell one of the alternatives
WordRuns(text) ==
  LET first == {i \in 1..Len(text) :
                  IsWordChar(text[i]) /\ (i = 1 \/ ~IsWordChar(text[i - 1]))}
      last  == {j \in 1..Len(text) :
                  IsWordChar(text[j]) /\ (j = Len(text) \/ ~IsWordChar(text[j + 1]))}
  IN {<<i, Min({j \in last : j >= i})>> : i \in first}

\* 19\d{2}|20[0-2]\d
IsYearWord(w) ==
  /\ Len(w) = 4
  /\ \/ w[1] = "1" /\ w[2] = "9" /\ IsDigit(w[3]) /\ IsDigit(w[4])
     \/ w[1] = "2" /\ w[2] = "0" /\ w[3] \in {"0", "1", "2"} /\ IsDigit(w[4])

\* the spans matched by each compiled pattern, all occurrences
year_pattern(text) ==
  {r \in WordRuns(text) : IsYearWord(SubSeq(text, r[1], r[2]))}

quality_pattern(text) ==
  {r \in WordRuns(text) : SubSeq(text, r[1], r[2]) \in QualityKeys}

language_pattern(text) ==
  {r \in WordRuns(text) : SubSeq(text, r[1], r[2]) \in LanguageKeys}

\* pattern.search(text): the leftmost match (spans is not empty)
search(spans) == CHOOSE r \in spans : \A q \in spans : r[1] <= q[1]

\* match.group(0)
group(text, span) == SubSeq(text, span[1], span[2])

\* pattern.sub(' ', text): every match replaced by one space
sub(spans, text) ==
  LET marked == [i \in 1..Len(text) |->
                   IF \E r \in spans : r[1] = i THEN " "
                   ELSE IF \E r \in spans : r[1] < i /\ i <= r[2] THEN "deleted"
                   ELSE text[i]]
  IN SelectSeq(marked, LAMBDA c : c # "deleted")

\* ^<open>[^<close>]+<close>\s*  : length of the match at the start, or -1
GroupPrefix(text, open, close) ==
  LET NotClose == Range(CodePoints) \ {close}
      n == RunLen(text, 2, NotClose)
  IN IF Len(text) >= 1 /\ text[1] = open /\ n >= 1
        /\ Len(text) >= n + 2 /\ text[n + 2] = close
     THEN n + 2 + RunLen(text, n + 3, Spaces)
     ELSE -1

\* ^\d{4}p?\s*
YearPrefix(text) ==
  IF Len(text) >= 4 /\ \A k \in 1..4 : IsDigit(text[k])
  THEN LET p == IF Len(text) >= 5 /\ text[5] = "p" THEN 1 ELSE 0
       IN 4 + p + RunLen(text, 5 + p, Spaces)
  ELSE -1

\* ^[A-Z0-9]{2,6}\s+  (re.IGNORECASE)
CodePrefix(text) ==
  LET n == RunLen(text, 1, Alnums)
      m == RunLen(text, n + 1, Spaces)
  IN IF n >= 2 /\ n <= 6 /\ m >= 1 THEN n + m ELSE -1

\* ^@\w+\s*
HandlePrefix(text) ==
  IF Len(text) >= 1 /\ text[1] = "@" /\ RunLen(text, 2, WordChars) >= 1
  THEN LET n == RunLen(text, 2, WordChars)
       IN 1 + n + RunLen(text, n + 2, Spaces)
  ELSE -1

\* ^<name>\w+\s+
NamePrefix(text, name) ==
  IF startswith(text, name)
  THEN LET n == RunLen(text, Len(name) + 1, WordChars)
           m == RunLen(text, Len(name) + n + 1, Spaces)
       IN IF n >= 1 /\ m >= 1 THEN Len(name) + n + m ELSE -1
  ELSE -1

\* self.prefix_patterns, in order
prefix_patterns ==
  <<"[", "{", "(", "year", "code", "@", "cine", "royal", "mlw", "mkv", "mov">>

\* length of the match of one prefix pattern at the start of text, or -1
PrefixMatch(pattern, text) ==
  CASE pattern = "["    -> GroupPrefix(text, "[", "]")
    [] pattern = "{"    -> GroupPrefix(text, "{", "}")
    [] pattern = "("    -> GroupPrefix(text, "(", ")")
    [] pattern = "year" -> YearPrefix(text)
    [] pattern = "code" -> CodePrefix(text)
    [] pattern = "@"    -> HandlePrefix(text)
    [] OTHER            -> NamePrefix(text, Str(pattern))

\* re.sub(pattern, ' ', text, flags=re.IGNORECASE) for an anchored pattern
SubPrefix(pattern, text) ==
  LET n == PrefixMatch(pattern, text)
  IN IF n = -1 THEN text ELSE <<" ">> \o From(text, n + 1)

\* for pattern in self.prefix_patterns: text = re.sub(pattern, ' ', text)
\* (every pattern needs a character to match, an empty text stays empty)
RECURSIVE RemovePrefixes(_, _)
RemovePrefixes(patterns, text) ==
  IF Len(patterns) = 0 \/ Len(text) = 0 THEN text
  ELSE RemovePrefixes(Tail(patterns), SubPrefix(Head(patterns), text))

Separators == {".", "_", "-", "[", "]", "(", ")", "{", "}", "|"}

\* re.sub(r'[\._\-\[\]\(\)\{\}\|]', ' ', text)
ReplaceSeparators(text) ==
  [i \in 1..Len(text) |-> IF text[i] \in Separators THEN " " ELSE text[i]]

\* re.sub(r'[^\w\s]', '', text)
RemoveSpecial(text) ==
  SelectSeq(text, LAMBDA c : IsWordChar(c) \/ IsSpace(c))

\* re.sub(r'\d+', '', token)
RemoveDigits(token) == SelectSeq(token, LAMBDA c : ~IsDigit(c))

-----------------------------------------------------------------------------
(* AdvancedMovieMatcher.normalize_filename                                 *)

\* for ext in self.extensions: if text.endswith(ext): strip it; break
\* (no extension is a suffix of another, so the set's order is immaterial)
RemoveExtension(text) ==
  IF \E ext \in extensions : endswith(text, ext)
  THEN LET ext == CHOOSE e \in extensions : endswith(text, e)
       IN strip(SubSeq(text, 1, Len(text) - Len(ext)))
  ELSE text

\* the loop body without its "Skip single characters" test
ProcessTokenKeepsSingles(token) ==
  IF token \in KEEP_WORDS THEN <<token>>
  ELSE IF token \in JUNK_WORDS THEN <<>>
  ELSE IF isdigit(token) /\ Len(token) # 4 THEN <<>>
  ELSE IF token \in AbbreviationKeys THEN split(Expansion(token))
  ELSE IF \E i \in 1..Len(token) : IsDigit(token[i])
       THEN LET t == RemoveDigits(token)
            IN IF Len(t) < 2 THEN <<>> ELSE <<t>>
       ELSE <<token>>

\* the body of the "for token in tokens" loop: the tokens one input token
\* appends to filtered_tokens
ProcessToken(token) ==
  IF token \in KEEP_WORDS THEN <<token>>
  ELSE IF token \in JUNK_WORDS THEN <<>>
  ELSE IF Len(token) = 1 /\ token[1] \notin {"i", "v", "x"} THEN <<>>
  ELSE IF isdigit(token) /\ Len(token) # 4 THEN <<>>
  ELSE IF token \in AbbreviationKeys THEN split(Expansion(token))
  ELSE IF \E i \in 1..Len(token) : IsDigit(token[i])
       THEN LET t == RemoveDigits(token)
            IN IF Len(t) < 2 THEN <<>> ELSE <<t>>
       ELSE <<token>>

RECURSIVE FilterTokens(_)
FilterTokens(tokens) ==
  IF Len(tokens) = 0 THEN <<>>
  ELSE ProcessToken(Head(tokens)) \o FilterTokens(Tail(tokens))

\* "Remove duplicate tokens while preserving order"
RECURSIVE UniqueFrom(_, _)
UniqueFrom(tokens, seen) ==
  IF Len(tokens) = 0 THEN <<>>
  ELSE IF Head(tokens) \in seen THEN UniqueFrom(Tail(tokens), seen)
  ELSE <<Head(tokens)>> \o UniqueFrom(Tail(tokens), seen \cup {Head(tokens)})

\* a token list left with its duplicates
UniqueTokensSkipped(tokens) == tokens

UniqueTokens(tokens) == UniqueFrom(tokens, {})

\* the empty dict {}
EmptyDict == [k \in {} |-> None]

\* match = pattern.search(text); if match: text = pattern.sub(' ', text)
\* the matched text (None without a match) and the text left
Extract(spans, text) ==
  IF spans = {} THEN [match |-> None, text |-> text]
  ELSE [match |-> group(text, search(spans)), text |-> sub(spans, text)]

\* "Extract year"
ExtractYear(text) == Extract(year_pattern(text), text)

\* "Extract quality"
ExtractQuality(text) == Extract(quality_pattern(text), text)

\* "Extract language"
ExtractLanguage(text) == Extract(language_pattern(text), text)

\* the text left and what the three extractions recorded
Extracted(years, quals, langs) ==
  [text     |-> langs.text,
   year     |-> years.match,
   quality  |-> IF quals.match = None THEN None ELSE lower(quals.match),
   language |-> IF langs.match = None THEN None ELSE lower(langs.match)]

AfterQuality(years, quals) ==
  Only({Extracted(years, quals, langs) : langs \in {ExtractLanguage(quals.text)}})

AfterYear(years) ==
  Only({AfterQuality(years, quals) : quals \in {ExtractQuality(years.text)}})

\* "Convert to lowercase" to "Extract language"
ExtractMetadata(name) ==
  Only({AfterYear(years) :
          years \in {ExtractYear(RemoveExtension(strip(lower(name))))}})

\* "Remove common prefixes" to "Process tokens": filtered_tokens
FilteredTokens(text) ==
  Only({FilterTokens(split(RemoveSpecial(ReplaceSeparators(unprefixed)))) :
          unprefixed \in {RemovePrefixes(prefix_patterns, text)}})

\* return normalized, unique_tokens, year, metadata
Normalized(name, found, unique_tokens) ==
  [normalized |-> join(<<" ">>, unique_tokens),
   tokens     |-> unique_tokens,
   year       |-> found.year,
   metadata   |-> [original     |-> name,
                   quality      |-> found.quality,
                   language     |-> found.language,
                   has_year     |-> found.year # None,
                   has_quality  |-> found.quality # None,
                   has_language |-> found.language # None]]

\* "Remove common prefixes" to "Remove duplicate tokens"
Tokenized(name, found) ==
  Only({Normalized(name, found, UniqueTokens(filtered_tokens)) :
          filtered_tokens \in {FilteredTokens(found.text)}})

\* returns (normalized, tokens, year, metadata)
normalize_filename(name) ==
  IF Len(name) = 0
  THEN [normalized |-> <<>>, tokens |-> <<>>, year |-> None, metadata |-> EmptyDict]
  ELSE Only({Tokenized(name, found) : found \in {ExtractMetadata(name)}})

-----------------------------------------------------------------------------
(* Arithmetic: floats as exact rationals <<numerator, denominator>>        *)

RECURSIVE GCD(_, _)
GCD(a, b) == IF b = 0 THEN a ELSE GCD(b, a % b)

Abs(n) == IF n < 0 THEN -n ELSE n

\* the rational n/d in lowest terms (d > 0)
Rat(n, d) ==
  LET g == GCD(Abs(n), d)
  IN <<n \div g, d \div g>>

Zero == <<0, 1>>
One == <<1, 1>>

RMul(x, y) ==
  LET g1 == GCD(Abs(x[1]), y[2])
      g2 == GCD(Abs(y[1]), x[2])
  IN <<(x[1] \div g1) * (y[1] \div g2), (x[2] \div g2) * (y[2] \div g1)>>

RAdd(x, y) ==
  LET g == GCD(x[2], y[2])
  IN Rat(x[1] * (y[2] \div g) + y[1] * (x[2] \div g), (x[2] \div g) * y[2])

\* the order of two rationals >= 0, as -1, 0 or 1, by their continued
\* fractions (no product is formed, so none exceeds the integer range)
RECURSIVE RCompare(_, _)
RCompare(x, y) ==
  LET qx == x[1] \div x[2]
      qy == y[1] \div y[2]
      rx == x[1] % x[2]
      ry == y[1] % y[2]
  IN IF qx # qy THEN (IF qx < qy THEN -1 ELSE 1)
     ELSE IF rx = 0 /\ ry = 0 THEN 0
     ELSE IF rx = 0 THEN -1
     ELSE IF ry = 0 THEN 1
     ELSE RCompare(<<y[2], ry>>, <<x[2], rx>>)

RLess(x, y) == RCompare(x, y) = -1
RLeq(x, y) == RCompare(x, y) # 1
\* a min that returns its second argument
RMinSecond(x, y) == y

RMin(x, y) == IF RLeq(x, y) THEN x ELSE y

-----------------------------------------------------------------------------
(* difflib.SequenceMatcher(None, a, b).ratio(), for b shorter than 200     *)
(* characters (no element is junk or "popular")                            *)

\* length of the common run of a from i and b from j, inside a[..ahi], b[..bhi]
CommonRun(a, b, i, ahi, j, bhi) ==
  LET most == Min({ahi - i, bhi - j}) + 1
      stop == {t \in 0..(most - 1) : a[i + t] # b[j + t]}
  IN IF stop = {} THEN most ELSE Min(stop)

\* find_longest_match(alo, ahi, blo, bhi) on inclusive 1-based bounds: the
\* longest matching block, the one starting earliest in a and then earliest
\* in b among the longest; <<i, j, k>> with k = 0 if there is none
find_longest_match(a, b, alo, ahi, blo, bhi) ==
  LET starts == {p \in (alo..ahi) \X (blo..bhi) : a[p[1]] = b[p[2]]}
      size == [p \in starts |-> CommonRun(a, b, p[1], ahi, p[2], bhi)]
  IN IF starts = {} THEN <<alo, blo, 0>>
     ELSE LET k == Max({size[p] : p \in starts})
              i == Min({p[1] : p \in {q \in starts : size[q] = k}})
              j == Min({p[2] : p \in {q \in starts : size[q] = k /\ q[1] = i}})
          IN <<i, j, k>>

\* sum of the sizes of get_matching_blocks(): the longest block, then the
\* pieces to its left and to its right
RECURSIVE MatchingSize(_, _, _, _, _, _)
MatchingSize(a, b, alo, ahi, blo, bhi) ==
  IF alo > ahi \/ blo > bhi THEN 0
  ELSE LET m == find_longest_match(a, b, alo, ahi, blo, bhi)
       IN IF m[3] = 0 THEN 0
          ELSE m[3]
               + MatchingSize(a, b, alo, m[1] - 1, blo, m[2] - 1)
               + MatchingSize(a, b, m[1] + m[3], ahi, m[2] + m[3], bhi)

\* ratio() = 2.0 * matches / (len(a) + len(b)), 1.0 for two empty strings
ratio(a, b) ==
  IF Len(a) + Len(b) = 0 THEN One
  ELSE Rat(2 * MatchingSize(a, b, 1, Len(a), 1, Len(b)), Len(a) + Len(b))

-----------------------------------------------------------------------------
(* AdvancedMovieMatcher.calculate_similarity                               *)

\* truth value of an Optional[str]: None and '' are false
Truthy(x) == x # None /\ x # <<>>

\* self.QUALITY_PATTERNS.get(quality, 0.5)
QualityScore(quality) ==
  IF quality \in QualityKeys
  THEN Rat((CHOOSE p \in QUALITY_PATTERNS : Str(p[1]) = quality)[2], 100)
  ELSE Rat(1, 2)

\* a year adjustment that never compares the two years
YearAdjustUncompared(base_score, year, file_year) ==
  IF Truthy(year) /\ Truthy(file_year)
  THEN RMin(One, RMul(base_score, Rat(12, 10)))
  ELSE IF Truthy(year) THEN RMul(base_score, Rat(7, 10)) ELSE base_score

\* the adjustment with a wrong year penalised like an unknown one
YearAdjustMildMismatch(base_score, year, file_year) ==
  IF Truthy(year) /\ Truthy(file_year) /\ year = file_year
  THEN RMin(One, RMul(base_score, Rat(12, 10)))
  ELSE IF Truthy(year) THEN RMul(base_score, Rat(7, 10)) ELSE base_score

\* the adjustment with the "moderate penalty" applied whenever the two years
\* are not both known
YearAdjustPenalisesUnknown(base_score, year, file_year) ==
  IF Truthy(year) /\ Truthy(file_year)
  THEN IF year = file_year
       THEN RMin(One, RMul(base_score, Rat(12, 10)))
       ELSE RMul(base_score, Rat(3, 10))
  ELSE IF Truthy(year) \/ Truthy(file_year)
       THEN RMul(base_score, Rat(7, 10))
       ELSE base_score

\* "Year matching bonus/penalty"
YearAdjust(base_score, year, file_year) ==
  IF Truthy(year) /\ Truthy(file_year)
  THEN IF year = file_year
       THEN RMin(One, RMul(base_score, Rat(12, 10)))
       ELSE RMul(base_score, Rat(3, 10))
  ELSE IF Truthy(year) /\ ~Truthy(file_year)
       THEN RMul(base_score, Rat(7, 10))
       ELSE base_score

\* "Quality score adjustment"
QualityAdjust(base_score, quality) ==
  IF Truthy(quality)
  THEN RMin(One, RMul(base_score,
                      RAdd(Rat(9, 10), RMul(QualityScore(quality), Rat(1, 10)))))
  ELSE base_score

\* the ratio of the longer to the shorter length
LengthRatioInverted(tmdb_len, file_len) ==
  IF Min({tmdb_len, file_len}) > 0
  THEN Rat(Max({tmdb_len, file_len}), Min({tmdb_len, file_len}))
  ELSE Zero

\* "Length penalty for very short/long matches"
LengthRatio(tmdb_len, file_len) ==
  IF Max({tmdb_len, file_len}) > 0
  THEN Rat(Min({tmdb_len, file_len}), Max({tmdb_len, file_len}))
  ELSE Zero

\* a boost for a coverage strictly above 0.8 only
CoverageBoostStrict(confidence, token_coverage) ==
  IF RLess(Rat(8, 10), token_coverage)
  THEN RMin(One, RMul(confidence, Rat(11, 10)))
  ELSE confidence

\* "Boost confidence if token coverage is high"
CoverageBoost(confidence, token_coverage) ==
  IF RLeq(Rat(8, 10), token_coverage)
  THEN RMin(One, RMul(confidence, Rat(11, 10)))
  ELSE confidence

\* "Penalize if too many unique file tokens (noise)"
NoisePenalty(confidence, unique_file_tokens) ==
  IF Cardinality(unique_file_tokens) > 5
  THEN RMul(confidence, Rat(8, 10))
  ELSE confidence

\* class MatchResult
MatchResult(file_name, similarity_score, matched_tokens, unmatched_tokens, year_match, quality_match, language_match, confidence) ==
  [file_name        |-> file_name,
   similarity_score |-> similarity_score,
   matched_tokens   |-> matched_tokens,
   unmatched_tokens |-> unmatched_tokens,
   year_match       |-> year_match,
   quality_match    |-> quality_match,
   language_match   |-> language_match,
   confidence       |-> confidence]

\* the title's tokens missing from the file, taken the wrong way round
unique_tmdb_tokensOfFile(tmdb_set, file_set) == file_set \ tmdb_set

\* "Calculate token-based metrics"
unique_tmdb_tokens(tmdb_set, file_set) == tmdb_set \ file_set

\* the early return with an empty unmatched_tokens
EarlyReturnNoUnmatched(tmdb, name) ==
  MatchResult(name, Zero, {}, {}, FALSE, None, None, Zero)

\* "if not tmdb_tokens or not file_tokens: return MatchResult(...)"
EarlyReturn(tmdb, name) ==
  MatchResult(name, Zero, {}, Range(tmdb.tokens), FALSE, None, None, Zero)

\* the MatchResult of one (title, file name) pair; matched_tokens and
\* unmatched_tokens are lists built from sets (or, in the early return, the
\* title's duplicate-free token list), modelled as the sets of their elements
\* "Length penalty ..." to "Create match result"
Rated(tmdb, file, name, year, token_coverage, base_score) ==
  MatchResult(name, base_score,
              Range(tmdb.tokens) \cap Range(file.tokens),
              unique_tmdb_tokens(Range(tmdb.tokens), Range(file.tokens)),
              Truthy(year) /\ Truthy(file.year) /\ year = file.year,
              file.metadata.quality, file.metadata.language,
              NoisePenalty(CoverageBoost(base_score, token_coverage),
                           Range(file.tokens) \ Range(tmdb.tokens)))

\* "Year matching bonus/penalty" to "Length penalty ..."
Adjusted(tmdb, file, name, year, token_coverage, base_score) ==
  Only({Only({Only({Rated(tmdb, file, name, year, token_coverage, base3) :
                      base3 \in {RMul(base2, LengthRatio(Len(tmdb.normalized),
                                                        Len(file.normalized)))}}) :
                base2 \in {QualityAdjust(base1, file.metadata.quality)}}) :
          base1 \in {YearAdjust(base_score, year, file.year)}})

\* "Weighted similarity score"
Weighted(token_coverage, sequence_similarity, jaccard_similarity) ==
  RAdd(RAdd(RMul(token_coverage, Rat(5, 10)),
            RMul(sequence_similarity, Rat(3, 10))),
       RMul(jaccard_similarity, Rat(2, 10)))

Scored(tmdb, file, name, year) ==
  IF Len(tmdb.tokens) = 0 \/ Len(file.tokens) = 0
  THEN EarlyReturn(tmdb, name)
  ELSE
    LET tmdb_set == Range(tmdb.tokens)
        file_set == Range(file.tokens)
        common_tokens == tmdb_set \cap file_set
    IN Only({Only({Adjusted(tmdb, file, name, year, token_coverage, base_score) :
                     base_score \in {Weighted(token_coverage, sequence_similarity,
                                              jaccard_similarity)}}) :
               token_coverage \in
                 {Rat(Cardinality(common_tokens), Cardinality(tmdb_set))},
               sequence_similarity \in
                 {ratio(tmdb.normalized, file.normalized)},
               jaccard_similarity \in
                 {Rat(Cardinality(common_tokens),
                      Cardinality(tmdb_set \cup file_set))}})

calculate_similarity(title, name, year) ==
  Only({Scored(tmdb, file, name, year) :
          tmdb \in {normalize_filename(title)}, file \in {normalize_filename(name)}})

-----------------------------------------------------------------------------
(* AdvancedMovieMatcher.find_best_matches                                  *)

\* thresholds a slip would apply: the one of the other branch, and
\* BotConfig.match_threshold_with_year, which the matcher does not read
ThresholdNoYearAsWithYear == Rat(6, 10)
ThresholdWithYearFromConfig == Rat(65, 100)

\* the thresholds of "Apply thresholds", as rationals
ThresholdWithYear == Rat(6, 10)
ThresholdNoYear == Rat(75, 100)

\* a first loop that keeps every result
PassesThresholdAlways(result, year) == TRUE

\* "Apply thresholds": is this result appended to matches?
PassesThreshold(result, year) ==
  IF Truthy(year)
  THEN RLeq(ThresholdWithYear, result.confidence)
  ELSE RLeq(ThresholdNoYear, result.confidence)

\* the first loop: the results of the file names, in order, that pass
ScoreAndFilter(title, year, names) ==
  SelectSeq([i \in 1..Len(names) |-> calculate_similarity(title, names[i], year)],
            LAMBDA r : PassesThreshold(r, year))

\* a sort that leaves the list as it is
SortByConfidenceSkipped(matches) == matches

\* matches.sort(key=lambda x: x.confidence, reverse=True): a stable sort, the
\* entries of equal confidence keep their order
SortByConfidence(matches) ==
  LET n == Len(matches)
      Before(i, j) ==
        \/ RLess(matches[j].confidence, matches[i].confidence)
        \/ matches[i].confidence = matches[j].confidence /\ i < j
      pos(i) == 1 + Cardinality({j \in 1..n : Before(j, i)})
  IN [k \in 1..n |-> matches[CHOOSE i \in 1..n : pos(i) = k]]

\* norm_content = ' '.join(sorted(match.matched_tokens))
NormContent(match) == join(<<" ">>, sorted(match.matched_tokens))

\* the entries of a list that no earlier entry shares its norm_content with
FirstOfEachContent(matches) ==
  LET kept == {k \in 1..Len(matches) :
                 \A j \in 1..(k - 1) : NormContent(matches[j]) # NormContent(matches[k])}
      nth(n) == CHOOSE k \in kept : Cardinality({j \in kept : j < k}) = n - 1
  IN [n \in 1..Cardinality(kept) |-> matches[nth(n)]]

\* a second loop that cuts the list to the limit before it looks for duplicates
RemoveDuplicatesAfterTruncation(matches, seen_content, unique_matches, lim) ==
  FirstOfEachContent(SubSeq(matches, 1, Min({Max({lim, 1}), Len(matches)})))

\* a second loop that never looks at seen_content
RemoveDuplicatesKeepsAll(matches, seen_content, unique_matches, lim) ==
  IF Len(matches) = 0 THEN unique_matches
  ELSE unique_matches \o SubSeq(matches, 1, Max({1, Min({lim, Len(matches)})}))

\* the second loop: keep the first match of each norm_content; the test
\* "len(unique_matches) >= limit: break" runs after an append only
RECURSIVE RemoveDuplicates(_, _, _, _)
RemoveDuplicates(matches, seen_content, unique_matches, lim) ==
  IF Len(matches) = 0 THEN unique_matches
  ELSE LET match == Head(matches)
           norm_content == NormContent(match)
       IN IF norm_content \notin seen_content
          THEN IF Len(unique_matches) + 1 >= lim
               THEN Append(unique_matches, match)
               ELSE RemoveDuplicates(Tail(matches), seen_content \cup {norm_content},
                                     Append(unique_matches, match), lim)
          ELSE RemoveDuplicates(Tail(matches), seen_content, unique_matches, lim)

\* matches after the first loop and the sort
SortedMatches(title, year, names) ==
  Only({SortByConfidence(matches) : matches \in {ScoreAndFilter(title, year, names)}})

find_best_matches(title, year, names, lim) ==
  Only({RemoveDuplicates(matches, {}, <<>>, lim) :
          matches \in {SortedMatches(title, year, names)}})

-----------------------------------------------------------------------------
(* AdvancedMovieMatcher.extract_keywords                                   *)

\* the tokens left in their order of appearance
SortByLengthSkipped(tokens) == tokens

\* title_keywords.sort(key=len, reverse=True): stable, longest first
SortByLength(tokens) ==
  LET n == Len(tokens)
      Before(i, j) ==
        \/ Len(tokens[i]) > Len(tokens[j])
        \/ Len(tokens[i]) = Len(tokens[j]) /\ i < j
      pos(i) == 1 + Cardinality({j \in 1..n : Before(j, i)})
  IN [k \in 1..n |-> tokens[CHOOSE i \in 1..n : pos(i) = k]]

\* metadata["quality"] and metadata["language"] raise KeyError on the empty
\* dict that normalize_filename returns for an empty file name
ExtractRaises(name) ==
  LET metadata == normalize_filename(name).metadata
  IN IF "quality" \notin DOMAIN metadata THEN "KeyError" ELSE "none"

Keywords(norm) ==
  LET tokens == norm.tokens
      title_keywords == SortByLength(SelectSeq(tokens, LAMBDA t : Len(t) >= 4))
      other_keywords == SelectSeq(tokens, LAMBDA t : Len(t) < 4)
  IN [title_keywords |-> SubSeq(title_keywords, 1, Min({5, Len(title_keywords)})),
      other_keywords |-> other_keywords,
      year           |-> norm.year,
      quality        |-> norm.metadata.quality,
      language       |-> norm.metadata.language,
      token_count    |-> Len(tokens),
      is_english     |-> norm.metadata.language \in {None, Str("english"), Str("en")}]

extract_keywords(name) ==
  Only({Keywords(norm) : norm \in {normalize_filename(name)}})

-----------------------------------------------------------------------------
(* The inputs the callers draw from                                        *)

\* longest file name / title, in words, that the calls are given
MaxWords == 2
\* longest candidate list given to find_best_matches
MaxFiles == 2
\* largest limit given to find_best_matches (the smallest is -1)
MaxLimit == 2

\* the strings of at most n words of W, joined by separators of S
RECURSIVE Phrases(_, _, _)
Phrases(W, S, n) ==
  IF n <= 1 THEN W
  ELSE LET P == Phrases(W, S, n - 1)
       IN P \cup {p \o sep \o w : p \in P, sep \in S, w \in W}

\* the lists of at most n elements of S
RECURSIVE Lists(_, _)
Lists(S, n) ==
  IF n = 0 THEN {<<>>}
  ELSE LET L == Lists(S, n - 1)
       IN L \cup {Append(l, x) : l \in L, x \in S}

\* file names given to normalize_filename and extract_keywords
NameWords == {Str(w) : w \in
  {"The", "Dark", "Knight", "2008", "1080p", "x264", "movie123", "mi", "in"}}
NameSeparators == {Str(" "), Str(".")}
ExampleNames == {<<>>} \cup {Str(w) : w \in
  {"Avengers.2012.1080p.BluRay.x264-GROUP.mkv", "The.Dark.Knight.2008.mkv",
   "mi fallout", "Inception_2010_720p", "[Grp] @uploader Inception",
   "dark1 Dark mi mission", "Dark_cam.cam",
   "Reconstruction.Sherlock.Holmes.Knight.Dark.Rises.II",
   "Blade.Runner.2049", "Dark.a.b.i.v.x.b1"}}
FileNames == Phrases(NameWords, NameSeparators, MaxWords) \cup ExampleNames

\* titles, years and candidates given to calculate_similarity
Titles == {<<>>, Str("Knight"), Str("The Dark Knight"), Str("Sherlock Holmes II"),
           Str("Reconstruction Dark Knight Rises Holmes")}
Years == {None, Str("1999"), Str("2020")}
CandidateWords == {Str(w) : w \in
  {"The", "Dark", "Knight", "Sherlock", "Holmes", "II", "2020", "480p"}}
Candidates ==
  Phrases(CandidateWords, {Str(".")}, MaxWords)
    \cup {Str("Reconstruction.Dark.Knight.Rises.Iron.Man.Fall.Out.Blade"),
          Str("Reconstruction.Dark.Knight.Rises.Iron.Man.Fall.Out.Blade.Run")}

\* queries and candidate lists given to find_best_matches
Scenario == <<Str("The.Dark.Knight.2008.1080p.BluRay.x264-GROUP.mkv"),
              Str("The Dark Knight Rises 2012 720p.mkv"),
              Str("randomfile.mkv")>>
Queries == {<<Str("The Dark Knight"), Str("2008")>>,
            <<Str("Sherlock Holmes II"), Str("2011")>>,
            <<Str("Sherlock Holmes II"), None>>}
Pool == {Str(w) : w \in
  {"Sherlock.Holmes.II.2011.mkv", "Sherlock.Holmes.2011",
   "Sherlock.Holmes.II.480p.mkv", "Sherlock.Holmes.II.Reconstruction.2011",
   "randomfile.mkv"}}
FileLists ==
  Lists(Pool, MaxFiles)
    \cup {Scenario,
          <<Str("Sherlock.Holmes.2011"), Str("Sherlock.Holmes.II"),
            Str("Sherlock.Holmes.II.2011.mkv")>>,
          <<Str("Sherlock.Holmes.II.1999"), Str("randomfile.mkv"),
            Str("Sherlock.Holmes.2011")>>}
Limits == (-1)..MaxLimit \cup {5}

-----------------------------------------------------------------------------
(* The callers: one call at a time on the shared matcher                   *)

NoResult == None

\* the attributes of the instance that __init__ and the class body build
AdvancedMovieMatcher ==
  [JUNK_WORDS        |-> JUNK_WORDS,
   KEEP_WORDS        |-> KEEP_WORDS,
   ABBREVIATIONS     |-> ABBREVIATIONS,
   QUALITY_PATTERNS  |-> QUALITY_PATTERNS,
   LANGUAGE_PATTERNS |-> LANGUAGE_PATTERNS,
   prefix_patterns   |-> prefix_patterns,
   extensions        |-> extensions,
   debug             |-> FALSE]

\* the callers that use the singleton at the same time
Callers == {"caller1", "caller2"}

\* the frame of a caller that is not inside find_best_matches
IdleCall ==
  [pc |-> "idle", tmdb_title |-> <<>>, tmdb_year |-> None, limit |-> 5,
   passed |-> <<>>, i |-> 1, matches |-> <<>>, unique_matches |-> <<>>]

Init ==
  /\ pc = "idle"
  /\ op = "none"
  /\ filename = <<>>
  /\ tmdb_title = <<>>
  /\ tmdb_year = None
  /\ file_names = <<>>
  /\ limit = 5
  /\ norm_result = NoResult
  /\ sim_result = NoResult
  /\ matches_result = NoResult
  /\ keywords_result = NoResult
  /\ raised = "none"
  /\ matcher = AdvancedMovieMatcher
  /\ calls = [t \in Callers |-> IdleCall]

Call_normalize_filename ==
  /\ pc = "idle"
  /\ \E name \in FileNames :
       /\ filename' = name
       /\ norm_result' = normalize_filename(name)
  /\ op' = "normalize_filename"
  /\ pc' = "returned"
  /\ UNCHANGED <<matcher, calls>>
  /\ UNCHANGED <<tmdb_title, tmdb_year, file_names, limit, sim_result,
                 matches_result, keywords_result, raised>>

Call_extract_keywords ==
  /\ pc = "idle"
  /\ \E name \in FileNames :
       /\ filename' = name
       /\ raised' = ExtractRaises(name)
       /\ keywords_result' = IF ExtractRaises(name) = "none"
                             THEN extract_keywords(name) ELSE NoResult
  /\ op' = "extract_keywords"
  /\ pc' = "returned"
  /\ UNCHANGED <<matcher, calls>>
  /\ UNCHANGED <<tmdb_title, tmdb_year, file_names, limit, norm_result,
                 sim_result, matches_result>>

Call_calculate_similarity ==
  /\ pc = "idle"
  /\ \E title \in Titles, name \in Candidates, year \in Years :
       /\ tmdb_title' = title
       /\ filename' = name
       /\ tmdb_year' = year
       /\ sim_result' = calculate_similarity(title, name, year)
  /\ op' = "calculate_similarity"
  /\ pc' = "returned"
  /\ UNCHANGED <<matcher, calls>>
  /\ UNCHANGED <<file_names, limit, norm_result, matches_result,
                 keywords_result, raised>>

Call_find_best_matches ==
  /\ pc = "idle"
  /\ \E q \in Queries, names \in FileLists :
       \E matches \in {SortedMatches(q[1], q[2], names)}, lim \in Limits :
            /\ tmdb_title' = q[1]
            /\ tmdb_year' = q[2]
            /\ file_names' = names
            /\ limit' = lim
            /\ matches_result' = RemoveDuplicates(matches, {}, <<>>, lim)
  /\ op' = "find_best_matches"
  /\ pc' = "returned"
  /\ UNCHANGED <<matcher, calls>>
  /\ UNCHANGED <<filename, norm_result, sim_result, keywords_result, raised>>

\* the caller takes the result and the matcher is idle again
Return ==
  /\ pc = "returned"
  /\ pc' = "idle"
  /\ op' = "none"
  /\ filename' = <<>>
  /\ tmdb_title' = <<>>
  /\ tmdb_year' = None
  /\ file_names' = <<>>
  /\ limit' = 5
  /\ norm_result' = NoResult
  /\ sim_result' = NoResult
  /\ matches_result' = NoResult
  /\ keywords_result' = NoResult
  /\ raised' = "none"
  /\ UNCHANGED <<matcher, calls>>

NextNormalize == Call_normalize_filename \/ Call_extract_keywords \/ Return
NextSimilarity == Call_calculate_similarity \/ Return
NextMatches == Call_find_best_matches \/ Return

SpecNormalize == Init /\ [][NextNormalize]_vars
SpecSimilarity == Init /\ [][NextSimilarity]_vars
SpecMatches == Init /\ [][NextMatches]_vars

-----------------------------------------------------------------------------
(* Concurrent callers of find_best_matches on the singleton                *)

\* the (tmdb_title, tmdb_year, limit) arguments of the concurrent calls
CallerArgs ==
  {<<Str("The Dark Knight"), Str("2008"), 5>>,
   <<Str("Sherlock Holmes II"), Str("2011"), 1>>,
   <<Str("Sherlock Holmes II"), Str("2011"), 5>>,
   <<Str("Sherlock Holmes II"), None, 5>>}

\* the candidate lists that the callers share
SharedLists ==
  {Scenario,
   <<Str("Sherlock.Holmes.2011"), Str("Sherlock.Holmes.II.2011.mkv"),
     Str("Sherlock.Holmes.II.480p.mkv")>>,
   <<Str("randomfile.mkv"), Str("Sherlock.Holmes.II.Reconstruction.2011"),
     Str("Sherlock.Holmes.II.2011.mkv")>>}

\* the variables of the sequential specifications
sequential == <<pc, op, filename, tmdb_title, tmdb_year, limit, norm_result,
                sim_result, matches_result, keywords_result, raised>>

\* the singleton is constructed and both callers hold the same list
InitConcurrent ==
  /\ pc = "idle"
  /\ op = "none"
  /\ filename = <<>>
  /\ tmdb_title = <<>>
  /\ tmdb_year = None
  /\ file_names \in SharedLists
  /\ limit = 5
  /\ norm_result = NoResult
  /\ sim_result = NoResult
  /\ matches_result = NoResult
  /\ keywords_result = NoResult
  /\ raised = "none"
  /\ matcher = AdvancedMovieMatcher
  /\ calls = [t \in Callers |-> IdleCall]

\* a caller enters find_best_matches: "matches = []" and the list iterator
\* at the first element; passed is the list as it was at the call
Begin(t) ==
  /\ calls[t].pc = "idle"
  /\ \E args \in CallerArgs :
       calls' = [calls EXCEPT ![t] =
                   [pc |-> "loop", tmdb_title |-> args[1], tmdb_year |-> args[2],
                    limit |-> args[3], passed |-> file_names, i |-> 1,
                    matches |-> <<>>, unique_matches |-> <<>>]]
  /\ UNCHANGED <<sequential, matcher, file_names>>

\* the matches of a frame after one more result
Appended(frame, result) ==
  IF PassesThreshold(result, frame.tmdb_year)
  THEN Append(frame.matches, result)
  ELSE frame.matches

\* a loop that takes its file names off the front of the caller's list
ScoreConsuming(t) ==
  /\ calls[t].pc = "loop"
  /\ Len(file_names) > 0
  /\ \E result \in {calculate_similarity(calls[t].tmdb_title, Head(file_names),
                                          calls[t].tmdb_year)} :
       calls' = [calls EXCEPT ![t].matches = Appended(calls[t], result)]
  /\ file_names' = Tail(file_names)
  /\ UNCHANGED <<sequential, matcher>>

\* one iteration of "for filename in file_names": the iterator reads the
\* element at its index from the list object, the result is kept if it
\* passes the threshold
Score(t) ==
  /\ calls[t].pc = "loop"
  /\ calls[t].i <= Len(file_names)
  /\ \E result \in {calculate_similarity(calls[t].tmdb_title,
                                          file_names[calls[t].i],
                                          calls[t].tmdb_year)} :
       calls' = [calls EXCEPT ![t].i = @ + 1,
                              ![t].matches = Appended(calls[t], result)]
  /\ UNCHANGED <<sequential, matcher, file_names>>

\* the iterator is exhausted; matches.sort(...) sorts the local list
Sort(t) ==
  /\ calls[t].pc = "loop"
  /\ calls[t].i > Len(file_names)
  /\ calls' = [calls EXCEPT ![t].pc = "sorted",
                            ![t].matches = SortByConfidence(@)]
  /\ UNCHANGED <<sequential, matcher, file_names>>

\* the second loop, on the locals seen_content and unique_matches, and the
\* return statement
Dedup(t) ==
  /\ calls[t].pc = "sorted"
  /\ calls' = [calls EXCEPT ![t].pc = "returned",
                            ![t].unique_matches =
                              RemoveDuplicates(calls[t].matches, {}, <<>>,
                                               calls[t].limit)]
  /\ UNCHANGED <<sequential, matcher, file_names>>

\* the caller takes the result
Finish(t) ==
  /\ calls[t].pc = "returned"
  /\ calls' = [calls EXCEPT ![t] = IdleCall]
  /\ UNCHANGED <<sequential, matcher, file_names>>

NextConcurrent ==
  \E t \in Callers : Begin(t) \/ Score(t) \/ Sort(t) \/ Dedup(t) \/ Finish(t)

SpecConcurrent == InitConcurrent /\ [][NextConcurrent]_vars

-----------------------------------------------------------------------------
(* Properties                                                              *)

Called(name) == pc = "returned" /\ op = name

\* the file names of a list of results
FileNamesOf(results) == [k \in 1..Len(results) |-> results[k].file_name]

\* C1: the end-to-end scenario: find_best_matches("The Dark Knight", "2008",
\* the three candidates, limit 5) returns a list whose first entry is the
\* first candidate, with year_match true and confidence >= 0.60, and that
\* does not contain "randomfile.mkv".
C1_EndToEndScenario ==
  ( /\ Called("find_best_matches")
    /\ tmdb_title = Str("The Dark Knight")
    /\ tmdb_year = Str("2008")
    /\ file_names = Scenario
    /\ limit = 5 )
  => /\ Len(matches_result) >= 1
     /\ matches_result[1].file_name = Scenario[1]
     /\ matches_result[1].year_match
     /\ RLeq(<<3, 5>>, matches_result[1].confidence)
     /\ Scenario[3] \notin Range(FileNamesOf(matches_result))

\* C2: for every title, year, candidate list and integer limit,
\* find_best_matches returns at most limit entries, and so an empty list
\* when limit <= 0.
C2_AtMostLimit ==
  Called("find_best_matches")
  => /\ limit >= 0 => Len(matches_result) <= limit
     /\ limit <= 0 => matches_result = <<>>

\* C3: the list returned by find_best_matches is ordered by non-increasing
\* confidence: each entry's confidence is at least that of the next entry.
C3_SortedByConfidence ==
  Called("find_best_matches")
  => \A i \in 1..(Len(matches_result) - 1) :
       RLeq(matches_result[i + 1].confidence, matches_result[i].confidence)

\* two entries are returned, the better one second in the caller's list
C3_Witness ==
  /\ Called("find_best_matches")
  /\ Len(matches_result) = 2
  /\ RLess(matches_result[2].confidence, matches_result[1].confidence)
  /\ FileNamesOf(matches_result) = <<file_names[2], file_names[1]>>

\* C4: no two entries of the list returned by find_best_matches have the
\* same dedup key, the entry's matched_tokens sorted and joined by spaces.
C4_DistinctKeys ==
  Called("find_best_matches")
  => \A i, j \in 1..Len(matches_result) :
       i < j => NormContent(matches_result[i]) # NormContent(matches_result[j])

\* two candidates of the same key pass the threshold and one is returned
C4_Witness ==
  /\ Called("find_best_matches")
  /\ limit >= 2
  /\ Len(file_names) = 2
  /\ LET passed == ScoreAndFilter(tmdb_title, tmdb_year, file_names)
     IN /\ Len(passed) = 2
        /\ NormContent(passed[1]) = NormContent(passed[2])
  /\ Len(matches_result) = 1

\* C5: with a title_year every returned entry has confidence >= 0.60,
\* without one every returned entry has confidence >= 0.75, and a candidate
\* whose confidence equals the applicable threshold passes the threshold step.
C5_YearDependentThreshold ==
  Called("find_best_matches")
  => LET threshold == IF Truthy(tmdb_year) THEN <<3, 5>> ELSE <<3, 4>>
     IN /\ \A k \in 1..Len(matches_result) :
             RLeq(threshold, matches_result[k].confidence)
        /\ \A i \in 1..Len(file_names) :
             calculate_similarity(tmdb_title, file_names[i], tmdb_year).confidence
               = threshold
             => file_names[i] \in Range(FileNamesOf(
                  ScoreAndFilter(tmdb_title, tmdb_year, file_names)))

\* an entry of confidence exactly 0.60 is returned, and so is one between
\* the two thresholds
C5_Witness ==
  /\ Called("find_best_matches")
  /\ Truthy(tmdb_year)
  /\ Len(matches_result) = 2
  /\ \E k \in 1..2 : matches_result[k].confidence = <<3, 5>>
  /\ \E k \in 1..2 : /\ RLess(<<3, 5>>, matches_result[k].confidence)
                     /\ RLess(matches_result[k].confidence, <<3, 4>>)

\* is the confidence in [0.60, 0.75)?
InBand(confidence) == RLeq(<<3, 5>>, confidence) /\ RLess(confidence, <<3, 4>>)

\* a call with one candidate, a year and a limit >= 1, the candidate's
\* confidence with that year in [0.60, 0.75)
C6_Case ==
  /\ Called("find_best_matches")
  /\ Len(file_names) = 1
  /\ limit >= 1
  /\ Truthy(tmdb_year)
  /\ InBand(calculate_similarity(tmdb_title, file_names[1], tmdb_year).confidence)

\* C6 as claimed: for any title, candidate and year such that the pair's
\* confidence lies in [0.60, 0.75), find_best_matches with the year returns
\* the candidate and the same call with no year returns an empty list.
C6_ThresholdAsymmetry ==
  C6_Case
  => /\ FileNamesOf(matches_result) = file_names
     /\ find_best_matches(tmdb_title, None, file_names, limit) = <<>>

\* C6 as amended: for any title, candidate and year such that the confidence
\* computed with the year lies in [0.60, 0.75), find_best_matches with the
\* year returns the candidate; the same call with no year returns an empty
\* list provided the confidence computed without a year is below 0.75 too.
C6_ThresholdAsymmetryAmended ==
  C6_Case
  => /\ FileNamesOf(matches_result) = file_names
     /\ RLess(calculate_similarity(tmdb_title, file_names[1], None).confidence,
              <<3, 4>>)
        => find_best_matches(tmdb_title, None, file_names, limit) = <<>>

\* the candidate is returned with the year and not without it
C6_Witness ==
  /\ C6_Case
  /\ FileNamesOf(matches_result) = file_names
  /\ find_best_matches(tmdb_title, None, file_names, limit) = <<>>

\* a call with title_year "1999" on a candidate whose extracted year is "2020"
C7_Case ==
  /\ Called("calculate_similarity")
  /\ tmdb_year = Str("1999")
  /\ normalize_filename(filename).year = Str("2020")

\* C7 as claimed: for every title and every candidate whose extracted year
\* is "2020", the confidence with title_year "1999" is strictly less than
\* the confidence with title_year "2020".
C7_YearMismatchStrictlyLower ==
  C7_Case
  => RLess(sim_result.confidence,
           calculate_similarity(tmdb_title, filename, Str("2020")).confidence)

\* C7 as amended: the confidence with title_year "1999" is never greater
\* than the confidence with title_year "2020", and it is strictly less
\* whenever the confidence with "2020" is positive (both are 0 otherwise).
C7_YearMismatchLower ==
  C7_Case
  => LET matching == calculate_similarity(tmdb_title, filename, Str("2020")).confidence
     IN /\ RLeq(sim_result.confidence, matching)
        /\ RLess(Zero, matching) => RLess(sim_result.confidence, matching)

\* a candidate of year 2020 that scores above 0 with either title_year
C7_Witness ==
  /\ C7_Case
  /\ RLess(Zero, sim_result.confidence)
  /\ ~sim_result.year_match
  /\ calculate_similarity(tmdb_title, filename, Str("2020")).year_match

\* filtered_tokens of the last normalize_filename call
FilteredOf(name) ==
  IF Len(name) = 0 THEN <<>> ELSE FilteredTokens(ExtractMetadata(name).text)

FirstIndex(tokens, token) == Min({k \in 1..Len(tokens) : tokens[k] = token})

\* C8: the token list returned by normalize_filename contains no duplicate
\* tokens, and its order is the order of first occurrence of each token.
C8_UniqueInFirstOccurrenceOrder ==
  Called("normalize_filename")
  => LET filtered == FilteredOf(filename)
         tokens == norm_result.tokens
     IN /\ \A i, j \in 1..Len(tokens) : i < j => tokens[i] # tokens[j]
        /\ Range(tokens) = Range(filtered)
        /\ \A i, j \in 1..Len(tokens) :
             i < j => FirstIndex(filtered, tokens[i]) < FirstIndex(filtered, tokens[j])

\* a repeated token was dropped from between two others
C8_Witness ==
  /\ Called("normalize_filename")
  /\ Len(norm_result.tokens) >= 3
  /\ Len(FilteredOf(filename)) > Len(norm_result.tokens)

\* C9: the token list returned by normalize_filename contains no member of
\* JUNK_WORDS, also after the always-keep check, after abbreviation
\* expansion and after stripping digits from mixed alphanumeric tokens.
C9_NoJunkWords ==
  Called("normalize_filename")
  => Range(norm_result.tokens) \cap JUNK_WORDS = {}

\* C10: normalize_filename("") yields an empty token list, an empty joined
\* string, an absent year, an absent quality and an absent language, in the
\* same result shape as for a non-empty input.
C10_EmptyInput ==
  ( Called("normalize_filename") /\ filename = <<>> )
  => /\ norm_result.tokens = <<>>
     /\ norm_result.normalized = <<>>
     /\ norm_result.year = None
     /\ "quality" \in DOMAIN norm_result.metadata
     /\ "language" \in DOMAIN norm_result.metadata
     /\ norm_result.metadata.quality = None
     /\ norm_result.metadata.language = None

\* C11: every operation is total: for every string, the empty string
\* included, the call returns a value and raises no error.
C11_Total ==
  pc = "returned" => raised = "none"

\* C12: normalize_filename("Avengers.2012.1080p.BluRay.x264-GROUP.mkv")
\* records year "2012" and quality "1080p" or "bluray", its tokens include
\* "avengers" and none of "2012", "1080p", "bluray", "x264"; and for every
\* input the extracted year and quality words are not among the tokens.
C12_ExtractedRemoved ==
  Called("normalize_filename")
  => LET tokens == Range(norm_result.tokens)
     IN /\ filename = Str("Avengers.2012.1080p.BluRay.x264-GROUP.mkv")
           => /\ norm_result.year = Str("2012")
              /\ norm_result.metadata.quality \in {Str("1080p"), Str("bluray")}
              /\ Str("avengers") \in tokens
              /\ tokens \cap {Str("2012"), Str("1080p"), Str("bluray"), Str("x264")} = {}
        /\ norm_result.year \notin tokens
        /\ "quality" \in DOMAIN norm_result.metadata
           => norm_result.metadata.quality \notin tokens

\* C13: whenever a whitespace-delimited word of the input is a known
\* abbreviation, the tokens contain every word of its expansion, together
\* with the other title words ("mi fallout": mission, impossible, fallout),
\* and not the bare abbreviation.
C13_AbbreviationExpanded ==
  Called("normalize_filename")
  => /\ \A word \in Range(split(lower(filename))) :
          word \in AbbreviationKeys
          => /\ Range(split(Expansion(word))) \subseteq Range(norm_result.tokens)
             /\ word \notin Range(norm_result.tokens)
     /\ filename = Str("mi fallout")
        => /\ {Str("mission"), Str("impossible"), Str("fallout")}
                \subseteq Range(norm_result.tokens)
           /\ Str("mi") \notin Range(norm_result.tokens)

\* C14: idempotence: for every string s, the token set of
\* normalize_filename(joined), joined being the normalized string of s, is
\* the token set of normalize_filename(s).
C14_Idempotent ==
  Called("normalize_filename")
  => Range(normalize_filename(norm_result.normalized).tokens)
       = Range(norm_result.tokens)

\* the normalized title and candidate of the last calculate_similarity call
TitleOf == normalize_filename(tmdb_title)
CandidateOf == normalize_filename(filename)

\* C15: in every MatchResult of calculate_similarity, the early return
\* included, matched_tokens and unmatched_tokens are disjoint and their union
\* is the token set of the normalized title.
C15_TokensPartitionTitle ==
  Called("calculate_similarity")
  => /\ sim_result.matched_tokens \cap sim_result.unmatched_tokens = {}
     /\ sim_result.matched_tokens \cup sim_result.unmatched_tokens
          = Range(TitleOf.tokens)

C15_Witness ==
  /\ Called("calculate_similarity")
  /\ sim_result.matched_tokens # {}
  /\ sim_result.unmatched_tokens # {}
  /\ Range(CandidateOf.tokens) \ Range(TitleOf.tokens) # {}

\* C16: for every title, candidate and optional title_year the confidence of
\* the MatchResult lies in [0, 1.1].
C16_ConfidenceRange ==
  Called("calculate_similarity")
  => /\ RLeq(Zero, sim_result.confidence)
     /\ RLeq(sim_result.confidence, Rat(11, 10))

C16_Witness ==
  /\ Called("calculate_similarity")
  /\ sim_result.year_match
  /\ sim_result.confidence = One

\* C17: if the normalized title or the normalized candidate has no tokens,
\* the result has confidence 0, similarity_score 0, no matched tokens,
\* year_match false and all of the title's tokens as unmatched_tokens.
C17_ZeroTokenResult ==
  Called("calculate_similarity")
    /\ (Len(TitleOf.tokens) = 0 \/ Len(CandidateOf.tokens) = 0)
  => /\ sim_result.confidence = Zero
     /\ sim_result.similarity_score = Zero
     /\ sim_result.matched_tokens = {}
     /\ ~sim_result.year_match
     /\ sim_result.unmatched_tokens = Range(TitleOf.tokens)

C17_Witness ==
  /\ Called("calculate_similarity")
  /\ Len(TitleOf.tokens) > 0
  /\ Len(CandidateOf.tokens) = 0
  /\ Truthy(CandidateOf.year)
  /\ sim_result.unmatched_tokens # {}

\* the weighted base score of a title and a candidate that both have tokens
C18_Base(tmdb, file) ==
  Weighted(Rat(Cardinality(Range(tmdb.tokens) \cap Range(file.tokens)),
               Cardinality(Range(tmdb.tokens))),
           ratio(tmdb.normalized, file.normalized),
           Rat(Cardinality(Range(tmdb.tokens) \cap Range(file.tokens)),
               Cardinality(Range(tmdb.tokens) \cup Range(file.tokens))))

\* the four cases of the year adjustment
C18_Case(year, file_year) ==
  IF year # None /\ file_year # None /\ year = file_year THEN 1
  ELSE IF year # None /\ file_year # None THEN 2
  ELSE IF year # None THEN 3
  ELSE 4

C18_Expected(base, case) ==
  IF case = 1 THEN (IF RLeq(RMul(base, Rat(12, 10)), One)
                    THEN RMul(base, Rat(12, 10)) ELSE One)
  ELSE IF case = 2 THEN RMul(base, Rat(3, 10))
  ELSE IF case = 3 THEN RMul(base, Rat(7, 10))
  ELSE base

C18_Holds(tmdb, file, case) ==
  /\ sim_result.similarity_score
       = RMul(QualityAdjust(C18_Expected(C18_Base(tmdb, file), case),
                            file.metadata.quality),
              LengthRatio(Len(tmdb.normalized), Len(file.normalized)))
  /\ sim_result.year_match <=> case = 1

\* C18: the year adjustment has four cases: both years present and equal,
\* base times 1.2 capped at 1.0 and year_match true; both present and
\* unequal, base times 0.3; title_year present and candidate year absent,
\* base times 0.7; title_year absent, base unchanged whatever the
\* candidate's year. year_match is true in the first case only.
C18_YearAdjustment ==
  Called("calculate_similarity")
    /\ Len(TitleOf.tokens) > 0 /\ Len(CandidateOf.tokens) > 0
  => \E tmdb \in {TitleOf}, file \in {CandidateOf} :
       C18_Holds(tmdb, file, C18_Case(tmdb_year, file.year))

C18_Witness ==
  /\ Called("calculate_similarity")
  /\ Len(TitleOf.tokens) > 0 /\ Len(CandidateOf.tokens) > 0
  /\ sim_result.year_match
  /\ RLess(One, RMul(C18_Base(TitleOf, CandidateOf), Rat(12, 10)))

\* the tokens of the last extract_keywords call, and those of length >= 4
KeywordTokens == normalize_filename(filename).tokens
LongTokens == SelectSeq(KeywordTokens, LAMBDA t : Len(t) >= 4)
ShortTokens == SelectSeq(KeywordTokens, LAMBDA t : Len(t) < 4)

C20_SameAsAlone ==
  \A t \in Callers :
    calls[t].pc = "returned"
    => calls[t].unique_matches
         = find_best_matches(calls[t].tmdb_title, calls[t].tmdb_year,
                             calls[t].passed, calls[t].limit)

\* C20: no step of a call modifies the shared matcher instance or the
\* caller's candidate list, and for every interleaving of concurrent calls
\* each call returns the result it returns when run alone.
C20_ConcurrentSafety ==
  /\ [](C20_SameAsAlone)
  /\ [][matcher' = matcher /\ file_names' = file_names]_vars

C20_Witness ==
  /\ calls["caller1"].pc = "returned"
  /\ calls["caller1"].unique_matches # <<>>
  /\ calls["caller2"].pc = "loop"
  /\ calls["caller2"].i = 2
  /\ calls["caller2"].matches # <<>>
  /\ calls["caller2"].tmdb_year # calls["caller1"].tmdb_year

\* the token coverage of a title by a candidate, and the candidate's tokens
\* that the title does not have
C21_Coverage(tmdb, file) ==
  Rat(Cardinality(Range(tmdb.tokens) \cap Range(file.tokens)),
      Cardinality(Range(tmdb.tokens)))
C21_Extra(tmdb, file) == Cardinality(Range(file.tokens) \ Range(tmdb.tokens))

\* the confidence that the claim's two steps give from a similarity score
C21_Boosted(score, coverage) ==
  IF RLeq(Rat(8, 10), coverage)
  THEN (IF RLeq(RMul(score, Rat(11, 10)), One)
        THEN RMul(score, Rat(11, 10)) ELSE One)
  ELSE score
C21_Expected(score, coverage, extra) ==
  IF extra > 5 THEN RMul(C21_Boosted(score, coverage), Rat(8, 10))
  ELSE C21_Boosted(score, coverage)

C21_Holds(tmdb, file) ==
  /\ sim_result.confidence
       = C21_Expected(sim_result.similarity_score, C21_Coverage(tmdb, file),
                      C21_Extra(tmdb, file))
  /\ sim_result.similarity_score
       = RMul(QualityAdjust(YearAdjust(C18_Base(tmdb, file), tmdb_year, file.year),
                            file.metadata.quality),
              LengthRatio(Len(tmdb.normalized), Len(file.normalized)))

\* C21: confidence starts as the adjusted base (similarity_score); a token
\* coverage >= 0.8, the boundary included, multiplies it by 1.1 capped at
\* 1.0; then strictly more than 5 candidate tokens absent from the title
\* multiply it by 0.8, exactly 5 give no penalty; similarity_score is
\* changed by neither step.
C21_ConfidenceAdjustment ==
  Called("calculate_similarity")
    /\ Len(TitleOf.tokens) > 0 /\ Len(CandidateOf.tokens) > 0
  => \E tmdb \in {TitleOf}, file \in {CandidateOf} : C21_Holds(tmdb, file)

C21_Witness ==
  /\ Called("calculate_similarity")
  /\ Len(TitleOf.tokens) > 0 /\ Len(CandidateOf.tokens) > 0
  /\ C21_Coverage(TitleOf, CandidateOf) = Rat(8, 10)
  /\ C21_Extra(TitleOf, CandidateOf) = 5
  /\ sim_result.confidence = RMul(sim_result.similarity_score, Rat(11, 10))

\* the words that the token loop of the last normalize_filename call is given
LoopTokensOf(name) ==
  IF Len(name) = 0 THEN <<>>
  ELSE split(RemoveSpecial(ReplaceSeparators(
         RemovePrefixes(prefix_patterns, ExtractMetadata(name).text))))

\* C22: a purely numeric token is dropped unless it has exactly 4 digits; a
\* 4-digit numeric token that was not consumed as the extracted year (such
\* as "2049" or "1492") is kept in the token list.
C22_FourDigitTokensKept ==
  Called("normalize_filename")
  => /\ \A token \in Range(norm_result.tokens) :
          isdigit(token) => Len(token) = 4
     /\ \A word \in Range(LoopTokensOf(filename)) :
          isdigit(word) /\ Len(word) = 4 => word \in Range(norm_result.tokens)

\* C23 as stated: the token list of normalize_filename(s) contains no token
\* of length 1 other than the single-letter Roman numerals "i", "v", "x".
C23_NoSingleCharacters ==
  Called("normalize_filename")
  => \A token \in Range(norm_result.tokens) :
       Len(token) = 1 => token \in {Str("i"), Str("v"), Str("x")}

\* C23 as amended: the token list contains no token of length 1 other than
\* "i", "v", "x" and the keep word "a".
C23_SingleCharactersKept ==
  Called("normalize_filename")
  => \A token \in Range(norm_result.tokens) :
       Len(token) = 1 => token \in {Str("i"), Str("v"), Str("x"), Str("a")}

C23_Witness ==
  /\ Called("normalize_filename")
  /\ {Str("a"), Str("i")} \subseteq Range(norm_result.tokens)
  /\ Str("b") \in Range(LoopTokensOf(filename))
  /\ Str("b") \notin Range(norm_result.tokens)

\* C24: the prefix rules are applied in their fixed order, each to the text
\* left by the one before, so an input that starts with several noise
\* prefixes in rule order, as "[Grp] @uploader Inception" does, has all of
\* them removed and none of their words survives as a token.
C24_AllPrefixesRemoved ==
  Called("normalize_filename") /\ filename = Str("[Grp] @uploader Inception")
  => /\ Range(norm_result.tokens) \cap {Str("grp"), Str("uploader")} = {}
     /\ norm_result.tokens = <<Str("inception")>>

\* C25: deduplication precedes truncation and keeps the best entry: for
\* limit >= 1 the result of find_best_matches is the first limit entries of
\* the above-threshold results sorted by confidence descending with, for
\* each dedup key, only its first result kept; duplicates use no limit slot.
C25_DedupBeforeTruncation ==
  Called("find_best_matches") /\ limit >= 1
  => \E unique \in {FirstOfEachContent(SortedMatches(tmdb_title, tmdb_year, file_names))} :
       matches_result = SubSeq(unique, 1, Min({limit, Len(unique)}))

C25_Witness ==
  /\ Called("find_best_matches") /\ limit = 2
  /\ Len(matches_result) = 2
  /\ \E ranked \in {SortedMatches(tmdb_title, tmdb_year, file_names)} :
       /\ Len(ranked) = 3
       /\ NormContent(ranked[1]) = NormContent(ranked[2])
       /\ matches_result = <<ranked[1], ranked[3]>>

\* the positions of a name where a number of 1900-2029 stands between
\* characters that are neither letters nor digits, or the ends of the name
C26_YearPositions(name) ==
  {i \in 1..(Len(name) - 3) :
     /\ \/ name[i] = "1" /\ name[i + 1] = "9"
        \/ name[i] = "2" /\ name[i + 1] = "0" /\ name[i + 2] \in {"0", "1", "2"}
     /\ IsDigit(name[i + 2]) /\ IsDigit(name[i + 3])
     /\ i = 1 \/ ~IsAlnum(name[i - 1])
     /\ i + 3 = Len(name) \/ ~IsAlnum(name[i + 4])}

\* C26: normalize_filename records as year the first 4-digit number in
\* 1900-2029 that stands as a separate number, whichever separator delimits
\* it (space, dot, hyphen, bracket or underscore: "Inception_2010_720p"
\* yields "2010"); the year is absent only if the input has no such number.
C26_FirstSeparateYear ==
  Called("normalize_filename")
  => \E positions \in {C26_YearPositions(filename)} :
       IF positions = {} THEN norm_result.year = None
       ELSE norm_result.year = SubSeq(filename, Min(positions), Min(positions) + 3)

\* C27: for every title, candidate and optional title_year both
\* similarity_score and confidence are at most 1.0; the quality multiplier
\* 0.9 + 0.1 * quality_score and the length ratio are each at most 1.
C27_ScoresAtMostOne ==
  Called("calculate_similarity")
  => /\ RLeq(sim_result.similarity_score, One)
     /\ RLeq(sim_result.confidence, One)
     /\ RLeq(LengthRatio(Len(TitleOf.normalized), Len(CandidateOf.normalized)), One)
     /\ Truthy(sim_result.quality_match)
        => RLeq(RAdd(Rat(9, 10), RMul(QualityScore(sim_result.quality_match), Rat(1, 10))), One)

C27_Witness ==
  /\ Called("calculate_similarity")
  /\ sim_result.similarity_score = One
  /\ sim_result.confidence = One
  /\ ~sim_result.year_match
  /\ Len(TitleOf.normalized) > 0

\* C28: when title_year is supplied, find_best_matches returns no candidate
\* whose extracted year is present and different from title_year: every
\* returned entry has year_match true or comes from a candidate with no
\* extracted year.
C28_NoWrongYearReturned ==
  Called("find_best_matches") /\ Truthy(tmdb_year)
  => \A k \in 1..Len(matches_result) :
       \/ matches_result[k].year_match
       \/ ~Truthy(normalize_filename(matches_result[k].file_name).year)

C28_Witness ==
  /\ Called("find_best_matches") /\ Truthy(tmdb_year)
  /\ Len(matches_result) > 0
  /\ \E i \in 1..Len(file_names) :
       /\ file_names[i] \notin Range(FileNamesOf(matches_result))
       /\ \E file \in {normalize_filename(file_names[i])} :
            /\ Truthy(file.year) /\ file.year # tmdb_year
            /\ Range(file.tokens) = Range(normalize_filename(tmdb_title).tokens)

\* C29: every entry returned by find_best_matches has at least one matched
\* token: a candidate that shares no token with the title, or that
\* normalizes to zero tokens, is never returned, with or without a year.
C29_ReturnedEntriesShareToken ==
  Called("find_best_matches")
  => \A k \in 1..Len(matches_result) :
       /\ matches_result[k].matched_tokens # {}
       /\ Range(normalize_filename(matches_result[k].file_name).tokens)
            \cap Range(normalize_filename(tmdb_title).tokens) # {}

C29_Witness ==
  /\ Called("find_best_matches")
  /\ Len(matches_result) > 0
  /\ \E i \in 1..Len(file_names) :
       /\ file_names[i] \notin Range(FileNamesOf(matches_result))
       /\ \E file \in {normalize_filename(file_names[i])} :
            /\ Len(file.tokens) > 0
            /\ Range(file.tokens) \cap Range(normalize_filename(tmdb_title).tokens) = {}

\* a name of letters and digits in words separated by single spaces
C30_SpacedWords(name) ==
  /\ Len(name) > 0
  /\ \A i \in 1..Len(name) : IsAlnum(name[i]) \/ name[i] = " "
  /\ name[1] # " " /\ name[Len(name)] # " "
  /\ \A i \in 1..(Len(name) - 1) : ~(name[i] = " " /\ name[i + 1] = " ")

\* the name with each space replaced by a dot
C30_Dotted(name) == [i \in 1..Len(name) |-> IF name[i] = " " THEN "." ELSE name[i]]

\* C30: separator independence: for every title made of words separated by
\* single spaces, normalize_filename returns the same token list for the
\* space-separated form and for the form with each space replaced by a dot
\* ("The Dark Knight" and "The.Dark.Knight").
C30_SeparatorIndependence ==
  Called("normalize_filename") /\ C30_SpacedWords(filename)
  => norm_result.tokens = normalize_filename(C30_Dotted(filename)).tokens

====
